---- MODULE Spec2Model ----
(***************************************************************************)
(* A model of rds_maintenance.py: one run of RdsMaintenance, which scans   *)
(* the RDS fleet for pending maintenance actions (do_check_mnt), resolves  *)
(* the writer role of each instance (instance_is_writer) and posts one     *)
(* chat message per maintenance record (send_to_slack).                    *)
(*                                                                         *)
(* Strings that the program takes apart (resource identifiers, instance    *)
(* names) are sequences of one-character strings.  A timestamp is a record *)
(* [y, m, d, hh, mi, ss].                                                  *)
(***************************************************************************)
EXTENDS Integers, Sequences, FiniteSets, TLC

VARIABLES
    pc,            \* position of the single thread of execution
    fleet,         \* the account's instances, in the provider's listing order
    clock,         \* the last value datetime.now() returned
    rds_instances, \* do_check_mnt: rds_instances['DBInstances']
    i,             \* do_check_mnt: index of `instance` in rds_instances
    pending,       \* do_check_mnt: instances_pending_mnt['PendingMaintenanceActions']
    j,             \* do_check_mnt: index of `instance_pending_mnt` in pending
    ins,           \* do_check_mnt: ins
    k,             \* do_check_mnt: index of `mnt_info` in the action's details
    days2mnt,      \* do_check_mnt: days2mnt.days
    winstances,    \* instance_is_writer: instances['DBInstances']
    wi,            \* instance_is_writer: index of `instance` in winstances
    mnt_alerts,    \* do_check_mnt: mnt_alerts
    origin,        \* history: for each record, the identifier, apply date and now() it was built from
    handed,        \* send_to_slack: its parameter mnt_alerts, one entry per call of send_to_slack
    n,             \* send_to_slack: index of `mnt` in its parameter
    sent,          \* the messages the chat provider accepted, in order
    calls,         \* history: every provider and chat call made, in order, with its outcome
    printed,       \* the lines print(error) wrote
    escaped        \* an exception left the program uncaught

vars == <<pc, fleet, clock, rds_instances, i, pending, j, ins, k, days2mnt,
          winstances, wi, mnt_alerts, origin, handed, n, sent, calls, printed, escaped>>

\* The longest fleet listing the model explores.
MaxInstances == 2

----------------------------------------------------------------------------
(* Calendar arithmetic of datetime, as line 80-81 uses it.                 *)

IsLeap(y) == (y % 4 = 0) /\ ((y % 100 # 0) \/ (y % 400 = 0))

DaysBeforeYear(y) ==
    LET p == y - 1 IN p * 365 + (p \div 4) - (p \div 100) + (p \div 400)

DaysInMonth(y, m) ==
    IF m = 2 THEN (IF IsLeap(y) THEN 29 ELSE 28)
    ELSE IF m \in {4, 6, 9, 11} THEN 30 ELSE 31

RECURSIVE DaysBeforeMonth(_, _)
DaysBeforeMonth(y, m) ==
    IF m = 1 THEN 0 ELSE DaysBeforeMonth(y, m - 1) + DaysInMonth(y, m - 1)

\* date.toordinal(): the day number of a calendar day.
Ordinal(y, m, d) == DaysBeforeYear(y) + DaysBeforeMonth(y, m) + d

\* strftime("%m-%d-%y"): month, day and the year without its century.
StrftimeDay(t) == <<t.m, t.d, t.y % 100>>

\* strptime(s, '%m-%d-%y'): two-digit years 69..99 are 1969..1999 and
\* 00..68 are 2000..2068; the time of day is midnight.
StrptimeDay(s) ==
    [y |-> IF s[3] >= 69 THEN 1900 + s[3] ELSE 2000 + s[3], m |-> s[1], d |-> s[2]]

\* Line 80-81: (apply day at midnight - current day at midnight).days
DaysUntilApply(apply, now) ==
    LET a == StrptimeDay(StrftimeDay(apply))
        c == StrptimeDay(StrftimeDay(now))
    IN  Ordinal(a.y, a.m, a.d) - Ordinal(c.y, c.m, c.d)

MonthAbbr(m) ==
    <<"Jan", "Feb", "Mar", "Apr", "May", "Jun",
      "Jul", "Aug", "Sep", "Oct", "Nov", "Dec">>[m]

\* strftime("%b %d %Y %H:%M:%S")
StrftimeFull(t) == <<MonthAbbr(t.m), t.d, t.y, t.hh, t.mi, t.ss>>

SecondOfDay(t) == (t.hh * 60 + t.mi) * 60 + t.ss

\* t1 is not later than t2.
NotAfter(t1, t2) ==
    LET o1 == Ordinal(t1.y, t1.m, t1.d)
        o2 == Ordinal(t2.y, t2.m, t2.d)
    IN  o1 < o2 \/ (o1 = o2 /\ SecondOfDay(t1) <= SecondOfDay(t2))

----------------------------------------------------------------------------
(* str.split(":") and the index [6] of line 78.                            *)

RECURSIVE SplitFrom(_, _, _, _)
SplitFrom(s, idx, cur, acc) ==
    IF idx > Len(s) THEN Append(acc, cur)
    ELSE IF s[idx] = ":" THEN SplitFrom(s, idx + 1, <<>>, Append(acc, cur))
    ELSE SplitFrom(s, idx + 1, Append(cur, s[idx]), acc)

Split(s) == SplitFrom(s, 1, <<>>, <<>>)

\* A mutation of ExtractIns: the last segment, [-1], instead of the seventh.
ExtractInsLast(segs) == segs[Len(segs)]

\* Line 78: (...split(":"))[6], the seventh element; fewer raise IndexError.
ExtractIns(segs) == segs[7]

----------------------------------------------------------------------------
(* The provider's side: what the RDS API answers.                          *)

\* arn:aws:rds:<region>:<account>:db:  (six colons)
ArnPrefix == <<"a", ":", "w", ":", "r", ":", "e", ":", "1", ":", "d", "b", ":">>

Stamp(y, m, d, hh, mi, ss) == [y |-> y, m |-> m, d |-> d, hh |-> hh, mi |-> mi, ss |-> ss]

Detail(action, apply, description) ==
    [Action |-> action, CurrentApplyDate |-> apply, Description |-> description]

NoCluster == "absent"

\* The values datetime.now() can return during a scan started on
\* 1 Nov 2026: just after midnight, just before the next, and the next day.
Nows ==
    { Stamp(2026, 11, 1, 0, 0, 1),
      Stamp(2026, 11, 1, 23, 59, 59),
      Stamp(2026, 11, 2, 0, 0, 0) }

\* The instances an account can hold as RDS documents them: the identifier
\* of a db instance is arn:aws:rds:region:account:db:name, a lookup of
\* pending actions by identifier answers with at most one entry, an Aurora
\* instance names its cluster and a standalone instance has no
\* DBClusterIdentifier key.
RdsKeys == {"w1", "r1", "w2", "r2", "idle", "solo"}

\* Answers the code accepts though RDS does not document them: an
\* identifier of six or of eight segments, two entries for one lookup, and
\* a cluster that lists no members.
OddKeys == {"short", "long", "twin", "hollow"}

Catalog ==
    [ w1 |->
        [ DBInstanceIdentifier |-> <<"w", "1">>,
          DBInstanceArn |-> ArnPrefix \o <<"w", "1">>,
          DBClusterIdentifier |-> "c1",
          Pending |-> << [ ResourceIdentifier |-> ArnPrefix \o <<"w", "1">>,
                           PendingMaintenanceActionDetails |->
                             << Detail("system-update", Stamp(2026, 11, 8, 23, 59, 59), "patch"),
                                Detail("os-upgrade", Stamp(2026, 11, 9, 0, 0, 1), "kernel") >> ] >> ],
      r1 |->
        [ DBInstanceIdentifier |-> <<"r", "1">>,
          DBInstanceArn |-> ArnPrefix \o <<"r", "1">>,
          DBClusterIdentifier |-> "c1",
          Pending |-> << [ ResourceIdentifier |-> ArnPrefix \o <<"r", "1">>,
                           PendingMaintenanceActionDetails |->
                             << Detail("system-update", Stamp(2026, 11, 1, 23, 59, 59), "patch") >> ] >> ],
      w2 |->
        [ DBInstanceIdentifier |-> <<"w", "2">>,
          DBInstanceArn |-> ArnPrefix \o <<"w", "2">>,
          DBClusterIdentifier |-> "c2",
          Pending |-> << [ ResourceIdentifier |-> ArnPrefix \o <<"w", "2">>,
                           PendingMaintenanceActionDetails |->
                             << Detail("db-upgrade", Stamp(2026, 12, 1, 12, 0, 0), "engine") >> ] >> ],
      r2 |->
        [ DBInstanceIdentifier |-> <<"r", "2">>,
          DBInstanceArn |-> ArnPrefix \o <<"r", "2">>,
          DBClusterIdentifier |-> "c2",
          Pending |-> << [ ResourceIdentifier |-> ArnPrefix \o <<"r", "2">>,
                           PendingMaintenanceActionDetails |->
                             << Detail("ca-rotation", Stamp(2069, 1, 1, 6, 0, 0), "cert") >> ] >> ],
      idle |->
        [ DBInstanceIdentifier |-> <<"i", "d">>,
          DBInstanceArn |-> ArnPrefix \o <<"i", "d">>,
          DBClusterIdentifier |-> "c3",
          Pending |-> << >> ],
      solo |->
        [ DBInstanceIdentifier |-> <<"s", "o">>,
          DBInstanceArn |-> ArnPrefix \o <<"s", "o">>,
          DBClusterIdentifier |-> NoCluster,
          Pending |-> << [ ResourceIdentifier |-> ArnPrefix \o <<"s", "o">>,
                           PendingMaintenanceActionDetails |->
                             << Detail("system-update", Stamp(2026, 11, 4, 3, 0, 0), "patch") >> ] >> ],
      short |->
        [ DBInstanceIdentifier |-> <<"s", "h">>,
          DBInstanceArn |-> <<"a", ":", "w", ":", "r", ":", "e", ":", "1", ":", "s", "h">>,
          DBClusterIdentifier |-> "c3",
          Pending |-> << [ ResourceIdentifier |-> <<"a", ":", "w", ":", "r", ":", "e", ":", "1", ":", "s", "h">>,
                           PendingMaintenanceActionDetails |->
                             << Detail("system-update", Stamp(2026, 11, 4, 3, 0, 0), "patch") >> ] >> ],
      long |->
        [ DBInstanceIdentifier |-> <<"l", "o">>,
          DBInstanceArn |-> ArnPrefix \o <<"l", "o", ":", "x">>,
          DBClusterIdentifier |-> "c4",
          Pending |-> << [ ResourceIdentifier |-> ArnPrefix \o <<"l", "o", ":", "x">>,
                           PendingMaintenanceActionDetails |->
                             << Detail("system-update", Stamp(2026, 11, 4, 3, 0, 0), "patch") >> ] >> ],
      twin |->
        [ DBInstanceIdentifier |-> <<"t", "w">>,
          DBInstanceArn |-> ArnPrefix \o <<"t", "w">>,
          DBClusterIdentifier |-> "c4",
          Pending |-> << [ ResourceIdentifier |-> ArnPrefix \o <<"t", "w">>,
                           PendingMaintenanceActionDetails |->
                             << Detail("system-update", Stamp(2026, 11, 4, 3, 0, 0), "patch") >> ],
                         [ ResourceIdentifier |-> ArnPrefix \o <<"t", "w">>,
                           PendingMaintenanceActionDetails |->
                             << Detail("os-upgrade", Stamp(2026, 11, 20, 3, 0, 0), "kernel") >> ] >> ],
      hollow |->
        [ DBInstanceIdentifier |-> <<"h", "o">>,
          DBInstanceArn |-> ArnPrefix \o <<"h", "o">>,
          DBClusterIdentifier |-> "c5",
          Pending |-> << [ ResourceIdentifier |-> ArnPrefix \o <<"h", "o">>,
                           PendingMaintenanceActionDetails |->
                             << Detail("system-update", Stamp(2026, 11, 4, 3, 0, 0), "patch") >> ] >> ] ]

Member(name, writer) == [DBInstanceIdentifier |-> name, IsClusterWriter |-> writer]

\* DBClusterMembers of each cluster, in the order the provider lists them.
\* In c2 the reader is listed before the writer.
ClusterMembers ==
    [ c1 |-> << Member(<<"w", "1">>, TRUE), Member(<<"r", "1">>, FALSE) >>,
      c2 |-> << Member(<<"r", "2">>, FALSE), Member(<<"w", "2">>, TRUE) >>,
      c3 |-> << Member(<<"i", "d">>, TRUE), Member(<<"s", "h">>, FALSE) >>,
      c4 |-> << Member(<<"l", "o">>, TRUE), Member(<<"t", "w">>, FALSE) >>,
      c5 |-> << >> ]

\* The sequences over S of length len without a repeated element.
RECURSIVE Listings(_, _)
Listings(S, len) ==
    IF len = 0 THEN { <<>> }
    ELSE { Append(q, x) : q \in Listings(S, len - 1), x \in S } 

Distinct(q) == \A a, b \in 1..Len(q) : a # b => q[a] # q[b]

Fleets(S) ==
    { q \in UNION { Listings(S, len) : len \in 0..MaxInstances } : Distinct(q) }

\* describe_db_instances(): every instance of the account, in listing order.
DescribeDbInstances(f) == [x \in 1..Len(f) |-> Catalog[f[x]]]

\* describe_db_instances(DBInstanceIdentifier=name): the instances of that name.
DescribeDbInstancesNamed(f, name) ==
    SelectSeq(DescribeDbInstances(f), LAMBDA inst : inst.DBInstanceIdentifier = name)

\* describe_pending_maintenance_actions(ResourceIdentifier=arn)
DescribePendingMaintenanceActions(f, arn) ==
    LET owners == SelectSeq(DescribeDbInstances(f), LAMBDA inst : inst.DBInstanceArn = arn)
    IN  IF owners = <<>> THEN <<>> ELSE owners[1].Pending

\* describe_db_clusters(DBClusterIdentifier=cluster_name): that one cluster.
DescribeDbClusters(cluster_name) == << [DBClusterMembers |-> ClusterMembers[cluster_name]] >>

----------------------------------------------------------------------------
(* The program.                                                            *)

\* One call: the operation, its keyword argument (kw, "" when it has none) and
\* whether it returned (ok) or raised.
Call(op, kw, arg, ok) == [op |-> op, kw |-> kw, arg |-> arg, ok |-> ok]

ProviderOps ==
    {"describe_db_instances", "describe_pending_maintenance_actions", "describe_db_clusters"}

ChatOp == "chat_postMessage"

\* A mutation of Handle: the error is swallowed without a line printed.
HandleSilent(error) ==
    /\ printed' = printed
    /\ pc' = "done"

\* Line 92-93: except Exception as error: print(error); do_check_mnt returns.
Handle(error) ==
    /\ printed' = Append(printed, error)
    /\ pc' = "done"

\* A mutation of PriorityOf: the boundary day classified Medium.
PriorityOfStrict(days) ==
    IF days < 7
    THEN [img_url |-> "highpriority.png", priority |-> "High Priority"]
    ELSE [img_url |-> "mediumpriority.png", priority |-> "Medium Priority"]

\* Line 128-133: the priority label and its icon.
PriorityOf(days) ==
    IF days <= 7
    THEN [img_url |-> "highpriority.png", priority |-> "High Priority"]
    ELSE [img_url |-> "mediumpriority.png", priority |-> "Medium Priority"]

\* Line 134-183: the blocks of one message.
Message(mnt) ==
    LET p == PriorityOf(mnt.days2mnt)
    IN  [ image_url |-> p.img_url, alt_text |-> p.priority, label |-> p.priority,
          title |-> mnt.ins, Action |-> mnt.action, IsWriter |-> mnt.iswriter,
          ForcedApplyDate |-> mnt.date, Description |-> mnt.description ]

\* A mutation of FirstMemberVerdict: the member list is searched for the instance.
RECURSIVE FirstMemberVerdictSearch(_, _)
FirstMemberVerdictSearch(clusters, instance_name) ==
    IF clusters = <<>> THEN "None"
    ELSE LET hits == SelectSeq(Head(clusters).DBClusterMembers,
                               LAMBDA m : m.DBInstanceIdentifier = instance_name)
         IN  IF hits # <<>>
             THEN (IF hits[1].IsClusterWriter = TRUE THEN "True" ELSE "False")
             ELSE IF Head(clusters).DBClusterMembers # <<>> THEN "False"
             ELSE FirstMemberVerdictSearch(Tail(clusters), instance_name)

\* Line 108-116: the loops over clusters and members return at the first
\* member they compare; "None" when no cluster lists a member.
RECURSIVE FirstMemberVerdict(_, _)
FirstMemberVerdict(clusters, instance_name) ==
    IF clusters = <<>> THEN "None"
    ELSE LET members == Head(clusters).DBClusterMembers
         IN  IF members = <<>> THEN FirstMemberVerdict(Tail(clusters), instance_name)
             ELSE IF members[1].DBInstanceIdentifier = instance_name
                  THEN (IF members[1].IsClusterWriter = TRUE THEN "True" ELSE "False")
                  ELSE "False"

CurrentAction == pending[j]
CurrentDetail == CurrentAction.PendingMaintenanceActionDetails[k]

\* Line 82-90: instance_is_writer has returned `verdict`; the record is
\* built and appended, and the loop over the details goes on.
AppendRecord(verdict) ==
    /\ mnt_alerts' = Append(mnt_alerts,
          [ ins |-> ins,
            action |-> CurrentDetail.Action,
            iswriter |-> verdict,
            date |-> StrftimeFull(CurrentDetail.CurrentApplyDate),
            description |-> CurrentDetail.Description,
            days2mnt |-> days2mnt ])
    /\ origin' = Append(origin,
          [ arn |-> CurrentAction.ResourceIdentifier,
            apply |-> CurrentDetail.CurrentApplyDate,
            now |-> clock ])
    /\ k' = k + 1
    /\ pc' = "details"

Init ==
    /\ pc = "entry"
    /\ fleet \in Fleets(RdsKeys)
    /\ clock \in Nows
    /\ rds_instances = <<>>
    /\ i = 1
    /\ pending = <<>>
    /\ j = 1
    /\ ins = <<>>
    /\ k = 1
    /\ days2mnt = 0
    /\ winstances = <<>>
    /\ wi = 1
    /\ mnt_alerts = <<>>
    /\ origin = <<>>
    /\ handed = <<>>
    /\ n = 1
    /\ sent = <<>>
    /\ calls = <<>>
    /\ printed = <<>>
    /\ escaped = FALSE

\* Line 57-61: __init__ builds the boto3 client outside any handler and
\* calls do_check_mnt.
Construct ==
    /\ pc = "entry"
    /\ \/ pc' = "list" /\ escaped' = escaped
       \/ pc' = "crashed" /\ escaped' = TRUE
    /\ UNCHANGED <<fleet, clock, rds_instances, i, pending, j, ins, k, days2mnt,
                   winstances, wi, mnt_alerts, origin, handed, n, sent, calls, printed>>

\* Line 70-71: mnt_alerts = []; describe_db_instances().
ListInstances ==
    /\ pc = "list"
    /\ \/ /\ calls' = Append(calls, Call("describe_db_instances", "", <<>>, TRUE))
          /\ rds_instances' = DescribeDbInstances(fleet)
          /\ i' = 1
          /\ pc' = "instances"
          /\ printed' = printed
       \/ /\ calls' = Append(calls, Call("describe_db_instances", "", <<>>, FALSE))
          /\ Handle("ClientError")
          /\ UNCHANGED <<rds_instances, i>>
    /\ UNCHANGED <<fleet, clock, pending, j, ins, k, days2mnt, winstances, wi,
                   mnt_alerts, origin, handed, n, sent, escaped>>

\* Line 72-76: the next instance's pending maintenance actions; an empty
\* answer skips the instance.
LookupPending ==
    /\ pc = "instances"
    /\ i <= Len(rds_instances)
    /\ LET arn == rds_instances[i].DBInstanceArn IN
       \/ /\ calls' = Append(calls, Call("describe_pending_maintenance_actions", "ResourceIdentifier", arn, TRUE))
          /\ pending' = DescribePendingMaintenanceActions(fleet, arn)
          /\ j' = 1
          /\ IF pending' # <<>>
             THEN pc' = "actions" /\ i' = i
             ELSE pc' = "instances" /\ i' = i + 1
          /\ printed' = printed
       \/ /\ calls' = Append(calls, Call("describe_pending_maintenance_actions", "ResourceIdentifier", arn, FALSE))
          /\ Handle("ClientError")
          /\ UNCHANGED <<pending, j, i>>
    /\ UNCHANGED <<fleet, clock, rds_instances, ins, k, days2mnt, winstances, wi,
                   mnt_alerts, origin, handed, n, sent, escaped>>

\* Line 77-78: the next action entry and its instance id; after the last
\* entry the loop over the instances goes on.
ExtractInstanceId ==
    /\ pc = "actions"
    /\ IF j > Len(pending)
       THEN /\ pc' = "instances"
            /\ i' = i + 1
            /\ UNCHANGED <<ins, k, printed>>
       ELSE LET segs == Split(CurrentAction.ResourceIdentifier) IN
            IF Len(segs) >= 7
            THEN /\ ins' = ExtractIns(segs)
                 /\ k' = 1
                 /\ pc' = "details"
                 /\ UNCHANGED <<i, printed>>
            ELSE /\ Handle("IndexError")
                 /\ UNCHANGED <<i, ins, k>>
    /\ UNCHANGED <<fleet, clock, rds_instances, pending, j, days2mnt, winstances, wi,
                   mnt_alerts, origin, handed, n, sent, calls, escaped>>

\* Line 79-81: the next detail; datetime.now() is read and days2mnt
\* computed.  After the last detail the loop over the entries goes on.
ComputeDays ==
    /\ pc = "details"
    /\ IF k > Len(CurrentAction.PendingMaintenanceActionDetails)
       THEN /\ j' = j + 1
            /\ pc' = "actions"
            /\ UNCHANGED <<clock, days2mnt>>
       ELSE /\ \E now \in Nows :
                 /\ NotAfter(clock, now)
                 /\ clock' = now
                 /\ days2mnt' = DaysUntilApply(CurrentDetail.CurrentApplyDate, now)
            /\ pc' = "writer"
            /\ j' = j
    /\ UNCHANGED <<fleet, rds_instances, i, pending, ins, k, winstances, wi,
                   mnt_alerts, origin, handed, n, sent, calls, printed, escaped>>

\* Line 104: describe_db_instances(DBInstanceIdentifier=instance_name);
\* the provider raises DBInstanceNotFound for a name it does not know.
WriterDescribeInstances ==
    /\ pc = "writer"
    /\ \/ /\ DescribeDbInstancesNamed(fleet, ins) # <<>>
          /\ calls' = Append(calls, Call("describe_db_instances", "DBInstanceIdentifier", ins, TRUE))
          /\ winstances' = DescribeDbInstancesNamed(fleet, ins)
          /\ wi' = 1
          /\ pc' = "writer_instances"
          /\ printed' = printed
       \/ /\ calls' = Append(calls, Call("describe_db_instances", "DBInstanceIdentifier", ins, FALSE))
          /\ Handle("ClientError")
          /\ UNCHANGED <<winstances, wi>>
    /\ UNCHANGED <<fleet, clock, rds_instances, i, pending, j, ins, k, days2mnt,
                   mnt_alerts, origin, handed, n, sent, escaped>>

\* Line 105-116: the next instance of the answer: its cluster identifier
\* (KeyError when the key is absent), describe_db_clusters, and the loops
\* over clusters and members.  When the loops end without a return the
\* function returns None.
WriterDescribeClusters ==
    /\ pc = "writer_instances"
    /\ IF wi > Len(winstances)
       THEN /\ AppendRecord("None")
            /\ UNCHANGED <<wi, calls, printed>>
       ELSE LET cluster_name == winstances[wi].DBClusterIdentifier IN
            IF cluster_name = NoCluster
            THEN /\ Handle("KeyError")
                 /\ UNCHANGED <<wi, calls, mnt_alerts, origin, k>>
            ELSE \/ /\ calls' = Append(calls, Call("describe_db_clusters", "DBClusterIdentifier", <<cluster_name>>, TRUE))
                    /\ LET verdict == FirstMemberVerdict(DescribeDbClusters(cluster_name), ins) IN
                       IF verdict = "None"
                       THEN /\ wi' = wi + 1
                            /\ pc' = "writer_instances"
                            /\ UNCHANGED <<mnt_alerts, origin, k>>
                       ELSE /\ AppendRecord(verdict)
                            /\ wi' = wi
                    /\ printed' = printed
                 \/ /\ calls' = Append(calls, Call("describe_db_clusters", "DBClusterIdentifier", <<cluster_name>>, FALSE))
                    /\ Handle("ClientError")
                    /\ UNCHANGED <<wi, mnt_alerts, origin, k>>
    /\ UNCHANGED <<fleet, clock, rds_instances, i, pending, j, ins, days2mnt, winstances,
                   handed, n, sent, escaped>>

\* A mutation of HandOff: send_to_slack is called inside the loop over the
\* instances, after the first of them.
HandOffInLoop ==
    /\ pc = "instances"
    /\ i > 1
    /\ handed' = Append(handed, mnt_alerts)
    /\ n' = 1
    /\ pc' = "notify"
    /\ UNCHANGED <<fleet, clock, rds_instances, i, pending, j, ins, k, days2mnt,
                   winstances, wi, mnt_alerts, origin, sent, calls, printed, escaped>>

\* Line 91, 126: after the last instance send_to_slack(mnt_alerts) is
\* called and builds its chat client.
HandOff ==
    /\ pc = "instances"
    /\ i > Len(rds_instances)
    /\ handed' = Append(handed, mnt_alerts)
    /\ n' = 1
    /\ pc' = "notify"
    /\ UNCHANGED <<fleet, clock, rds_instances, i, pending, j, ins, k, days2mnt,
                   winstances, wi, mnt_alerts, origin, sent, calls, printed, escaped>>

\* A mutation of Deliver: send_to_slack is called outside the try block, and
\* an exception of chat_postMessage leaves the program.
DeliverUncaught ==
    /\ pc = "notify"
    /\ IF n > Len(handed[1])
       THEN /\ pc' = "done"
            /\ UNCHANGED <<n, sent, calls, escaped>>
       ELSE \/ /\ calls' = Append(calls, Call(ChatOp, "channel", <<>>, TRUE))
               /\ sent' = Append(sent, Message(handed[1][n]))
               /\ n' = n + 1
               /\ pc' = "notify"
               /\ escaped' = escaped
            \/ /\ calls' = Append(calls, Call(ChatOp, "channel", <<>>, FALSE))
               /\ escaped' = TRUE
               /\ pc' = "crashed"
               /\ UNCHANGED <<n, sent>>
    /\ UNCHANGED <<fleet, clock, rds_instances, i, pending, j, ins, k, days2mnt,
                   winstances, wi, mnt_alerts, origin, handed, printed>>

\* A mutation of Deliver: each delivery has its own handler, and the loop
\* goes on to the next record after a failure.
DeliverBestEffort ==
    /\ pc = "notify"
    /\ IF n > Len(handed[1])
       THEN /\ pc' = "done"
            /\ UNCHANGED <<n, sent, calls, printed>>
       ELSE \/ /\ calls' = Append(calls, Call(ChatOp, "channel", <<>>, TRUE))
               /\ sent' = Append(sent, Message(handed[1][n]))
               /\ n' = n + 1
               /\ pc' = "notify"
               /\ printed' = printed
            \/ /\ calls' = Append(calls, Call(ChatOp, "channel", <<>>, FALSE))
               /\ printed' = Append(printed, "SlackApiError")
               /\ n' = n + 1
               /\ pc' = "notify"
               /\ sent' = sent
    /\ UNCHANGED <<fleet, clock, rds_instances, i, pending, j, ins, k, days2mnt,
                   winstances, wi, mnt_alerts, origin, handed, escaped>>

\* Line 127-187: the next record's message is built and posted; an
\* exception of chat_postMessage leaves send_to_slack and is caught in
\* do_check_mnt.  After the last record both return.
Deliver ==
    /\ pc = "notify"
    /\ IF n > Len(handed[1])
       THEN /\ pc' = "done"
            /\ UNCHANGED <<n, sent, calls, printed>>
       ELSE \/ /\ calls' = Append(calls, Call(ChatOp, "channel", <<>>, TRUE))
               /\ sent' = Append(sent, Message(handed[1][n]))
               /\ n' = n + 1
               /\ pc' = "notify"
               /\ printed' = printed
            \/ /\ calls' = Append(calls, Call(ChatOp, "channel", <<>>, FALSE))
               /\ Handle("SlackApiError")
               /\ UNCHANGED <<n, sent>>
    /\ UNCHANGED <<fleet, clock, rds_instances, i, pending, j, ins, k, days2mnt,
                   winstances, wi, mnt_alerts, origin, handed, escaped>>

Next ==
    \/ Construct
    \/ ListInstances
    \/ LookupPending
    \/ ExtractInstanceId
    \/ ComputeDays
    \/ WriterDescribeInstances
    \/ WriterDescribeClusters
    \/ HandOff
    \/ Deliver

Spec == Init /\ [][Next]_vars

\* The same program against a provider whose answers are not restricted to
\* what RDS documents.
InitAny ==
    /\ pc = "entry"
    /\ fleet \in { f \in Fleets(RdsKeys \cup OddKeys) : \E x \in 1..Len(f) : f[x] \in OddKeys }
    /\ clock \in Nows
    /\ rds_instances = <<>>
    /\ i = 1
    /\ pending = <<>>
    /\ j = 1
    /\ ins = <<>>
    /\ k = 1
    /\ days2mnt = 0
    /\ winstances = <<>>
    /\ wi = 1
    /\ mnt_alerts = <<>>
    /\ origin = <<>>
    /\ handed = <<>>
    /\ n = 1
    /\ sent = <<>>
    /\ calls = <<>>
    /\ printed = <<>>
    /\ escaped = FALSE

SpecAny == InitAny /\ [][Next]_vars

----------------------------------------------------------------------------
(* What the claims speak of.                                               *)

ChatCalls == SelectSeq(calls, LAMBDA c : c.op = ChatOp)

ProviderCalls == SelectSeq(calls, LAMBDA c : c.op \in ProviderOps)

Raised(q) == \E x \in 1..Len(q) : ~q[x].ok

\* The record list send_to_slack was given (empty before the hand-off).
Given == IF handed = <<>> THEN <<>> ELSE handed[1]

RECURSIVE Flatten(_)
Flatten(qq) == IF qq = <<>> THEN <<>> ELSE Head(qq) \o Flatten(Tail(qq))

\* The (instance, action entry, action detail) pairs of a fleet, by listing
\* order, then entry order, then detail order.
PairsOfEntry(inst, e) ==
    [ x \in 1..Len(e.PendingMaintenanceActionDetails) |->
        [ instance |-> inst.DBInstanceIdentifier,
          action |-> e.PendingMaintenanceActionDetails[x].Action,
          apply |-> e.PendingMaintenanceActionDetails[x].CurrentApplyDate,
          description |-> e.PendingMaintenanceActionDetails[x].Description ] ]

PairsOfInstance(inst) ==
    Flatten([ x \in 1..Len(inst.Pending) |-> PairsOfEntry(inst, inst.Pending[x]) ])

Pairs(f) == Flatten([ x \in 1..Len(f) |-> PairsOfInstance(Catalog[f[x]]) ])

\* The positions of the colons of a string, and its x-th colon.
Colons(s) == { p \in 1..Len(s) : s[p] = ":" }

NthColon(s, x) == CHOOSE p \in Colons(s) : Cardinality({ q \in Colons(s) : q <= p }) = x

\* The seventh colon-delimited segment: what lies between the sixth colon
\* and the seventh, or the end when there is no seventh.
SeventhSegment(s) ==
    LET from == NthColon(s, 6) + 1
        to == IF Cardinality(Colons(s)) >= 7 THEN NthColon(s, 7) - 1 ELSE Len(s)
    IN  SubSeq(s, from, to)

\* The instance of the fleet that carries a name.
Named(name) == CHOOSE key \in { fleet[x] : x \in 1..Len(fleet) } :
                   Catalog[key].DBInstanceIdentifier = name

----------------------------------------------------------------------------
(* The claims.                                                             *)

\* C1: every message delivered carries the label "High Priority" exactly
\* when its record's day count is <= 7 (zero and negative counts included)
\* and "Medium Priority" exactly when it is >= 8, and no other label.
C1_PriorityByDayCount ==
    \A x \in 1..Len(sent) :
        LET days == Given[x].days2mnt
            msg == sent[x]
        IN  /\ msg.alt_text \in {"High Priority", "Medium Priority"}
            /\ msg.label = msg.alt_text
            /\ (msg.alt_text = "High Priority") <=> (days <= 7)
            /\ (msg.alt_text = "Medium Priority") <=> (days >= 8)
            /\ (msg.image_url = "highpriority.png") <=> (days <= 7)

\* C1's case: messages delivered for day counts of 7, of 8 and of at most 0.
C1_Witness ==
    /\ \E x \in 1..Len(sent) : Given[x].days2mnt = 7 /\ sent[x].alt_text = "High Priority"
    /\ \E x \in 1..Len(sent) : Given[x].days2mnt = 8 /\ sent[x].alt_text = "Medium Priority"
    /\ \E x \in 1..Len(sent) : Given[x].days2mnt <= 0 /\ sent[x].alt_text = "High Priority"

C3_ScanErrorSendsNothing ==
    Raised(ProviderCalls) =>
        /\ pc = "done"
        /\ sent = <<>>
        /\ ChatCalls = <<>>
        /\ Len(printed) = 1
        /\ ~escaped

\* C3's case: a provider call raised after two records had been collected.
C3_Witness ==
    /\ Raised(ProviderCalls)
    /\ Len(mnt_alerts) >= 2

\* C4: when the delivery of the N-th record raises, the messages of records
\* 1..N-1 have been delivered, nothing is attempted for N+1..end, one error
\* line is printed and no exception leaves do_check_mnt.
C4_DeliveryErrorStopsAndIsCaught ==
    Raised(ChatCalls) =>
        LET N == Len(ChatCalls) IN
        /\ ~calls[Len(calls)].ok /\ calls[Len(calls)].op = ChatOp
        /\ \A x \in 1..(N - 1) : ChatCalls[x].ok
        /\ N <= Len(Given)
        /\ sent = [x \in 1..(N - 1) |-> Message(Given[x])]
        /\ printed = <<"SlackApiError">>
        /\ pc = "done"
        /\ ~escaped

\* C4's case: the second of three deliveries raised.
C4_Witness ==
    /\ Raised(ChatCalls)
    /\ Len(ChatCalls) = 2
    /\ Len(Given) = 3
    /\ Len(sent) = 1

C6_MessagesFollowListingOrder ==
    (pc = "done" /\ ~Raised(calls)) =>
        /\ Len(sent) = Len(Pairs(fleet))
        /\ \A x \in 1..Len(sent) :
              /\ sent[x].title = Pairs(fleet)[x].instance
              /\ sent[x].Action = Pairs(fleet)[x].action
              /\ sent[x].Description = Pairs(fleet)[x].description
              /\ sent[x].ForcedApplyDate = StrftimeFull(Pairs(fleet)[x].apply)

\* C7: a standalone instance with a pending action gets a record and a
\* message with IsWriter = False when no call raised.
C7_StandaloneIsNotWriter ==
    (pc = "done" /\ ~Raised(calls)) =>
        \A x \in 1..Len(fleet) :
            (Catalog[fleet[x]].DBClusterIdentifier = NoCluster /\ Catalog[fleet[x]].Pending # <<>>) =>
                /\ \E y \in 1..Len(mnt_alerts) :
                      /\ mnt_alerts[y].ins = Catalog[fleet[x]].DBInstanceIdentifier
                      /\ mnt_alerts[y].iswriter = "False"
                /\ \E y \in 1..Len(sent) :
                      /\ sent[y].title = Catalog[fleet[x]].DBInstanceIdentifier
                      /\ sent[y].IsWriter = "False"

\* C8: the day count of every record is the number of calendar days from
\* the day of the scan's now() to the day of the apply date, whatever the
\* times of day.
C8_DayCountIsCalendarDifference ==
    \A x \in 1..Len(mnt_alerts) :
        LET a == origin[x].apply
            c == origin[x].now
        IN  mnt_alerts[x].days2mnt = Ordinal(a.y, a.m, a.d) - Ordinal(c.y, c.m, c.d)

\* C9: for a resource identifier of at least seven colon-delimited
\* segments, the instance id of every record built from it, and the name
\* given to writer resolution, is its seventh segment.
C9_InstanceIdIsSeventhSegment ==
    /\ \A x \in 1..Len(mnt_alerts) :
          Cardinality(Colons(origin[x].arn)) >= 6 =>
              mnt_alerts[x].ins = SeventhSegment(origin[x].arn)
    /\ (pc \in {"writer", "writer_instances"} /\ Cardinality(Colons(CurrentAction.ResourceIdentifier)) >= 6) =>
          ins = SeventhSegment(CurrentAction.ResourceIdentifier)
    /\ (pc = "writer_instances" /\ Cardinality(Colons(CurrentAction.ResourceIdentifier)) >= 6) =>
          /\ calls[Len(calls)].kw \in {"DBInstanceIdentifier", "DBClusterIdentifier"}
          /\ calls[Len(calls)].kw = "DBInstanceIdentifier" =>
                calls[Len(calls)].arg = SeventhSegment(CurrentAction.ResourceIdentifier)

\* C9's case: a record built from an identifier of eight segments.
C9_Witness ==
    \E x \in 1..Len(mnt_alerts) :
        /\ Cardinality(Colons(origin[x].arn)) = 7
        /\ mnt_alerts[x].ins = <<"l", "o">>

\* C10: no provider call follows a chat call, and the notifier is given the
\* record list once, whole: one record for every pair of the fleet.
C10_ScanBeforeNotify ==
    /\ \A a, b \in 1..Len(calls) :
          (a < b /\ calls[a].op = ChatOp) => calls[b].op = ChatOp
    /\ Len(handed) <= 1
    /\ ChatCalls # <<>> => handed # <<>>
    /\ handed # <<>> =>
          /\ Given = mnt_alerts
          /\ Len(Given) = Len(Pairs(fleet))

\* C10's case: a delivery made after provider calls of two instances.
C10_Witness ==
    /\ Len(sent) >= 2
    /\ Len(fleet) = 2
    /\ \E a, b \in 1..Len(calls) :
          /\ calls[a].kw = "ResourceIdentifier" /\ calls[b].kw = "ResourceIdentifier"
          /\ calls[a].arg # calls[b].arg

====
